---- MODULE Spec2Model ----
(***************************************************************************)
(* State-machine model of the poker table engine of based-poker:           *)
(*   src/src/lib/poker-utils.ts            (deck, dealing, initializeGame, *)
(*                                          getNextStage, nextPlayer)      *)
(*   src/src/components/game/GameControls.tsx (the betting handlers,       *)
(*                                          handleNextStage, handleNewGame)*)
(* Arrays are modelled 0-based as functions over 0..length-1 where the     *)
(* code does index arithmetic (players), and as sequences where the code   *)
(* only pushes and pops (deck, cards, communityCards).                     *)
(***************************************************************************)
EXTENDS Integers, Sequences, FiniteSets, TLC

VARIABLES gameState, last, newGames

vars == <<gameState, last, newGames>>

(* ------------------------------ bounds --------------------------------- *)

\* Largest playerCount handed to initializeGame (1 is clamped to 2).
MaxPlayerCount == 3

\* initialChips, smallBlind and bigBlind handed to initializeGame.
InitialChips == 3

SmallBlind == 1

BigBlind == 2

\* Largest raise target (betAmount) a player can enter.
MaxBetAmount == 3

\* Number of times handleNewGame is taken in one behaviour.
MaxNewGames == 1

(* --------------------------- basic values ------------------------------ *)

\* The JavaScript value undefined (an absent id / an unset field).
Undefined == -1

Min(a, b) == IF a < b THEN a ELSE b

Max(a, b) == IF a > b THEN a ELSE b

suits == <<"hearts", "diamonds", "clubs", "spades">>

ranks == <<"2", "3", "4", "5", "6", "7", "8", "9", "10", "J", "Q", "K", "A">>

\* Outcomes of Math.random() in shuffleDeck: seed k picks j = (k*i) % (i+1)
\* at step i (k = 1 never swaps, k = 0 always swaps with position 0).
RandomSeeds == {0, 1}

RandomIndex(seed, i) == (seed * i) % (i + 1)

(* ------------------------------- deck ---------------------------------- *)

\* [a[i], a[j]] = [a[j], a[i]] on 0-based positions i and j.
Swap(deck, i, j) ==
  SubSeq([k \in 1..Len(deck) |->
            IF k = i + 1 THEN deck[j + 1]
            ELSE IF k = j + 1 THEN deck[i + 1]
            ELSE deck[k]], 1, Len(deck))

RECURSIVE FisherYates(_, _, _)
FisherYates(deck, i, seed) ==
  IF i <= 0 THEN deck
  ELSE LET swapped == Swap(deck, i, RandomIndex(seed, i))
       IN IF Len(swapped) = 0 THEN swapped
          ELSE FisherYates(swapped, i - 1, seed)

shuffleDeck(deck, seed) == FisherYates(deck, Len(deck) - 1, seed)

createDeck(seed) ==
  LET deck == [k \in 1..(Len(suits) * Len(ranks)) |->
                 [suit   |-> suits[((k - 1) \div Len(ranks)) + 1],
                  rank   |-> ranks[((k - 1) % Len(ranks)) + 1],
                  faceUp |-> FALSE]]
  IN shuffleDeck(SubSeq(deck, 1, Len(deck)), seed)

\* Array.prototype.pop: the last element; on an empty array pop() yields
\* undefined and `if (card)` fails, which HasCard decides.
HasCard(deck) == Len(deck) > 0

Pop(deck) == deck[Len(deck)]

Popped(deck) == IF Len(deck) = 0 THEN deck ELSE SubSeq(deck, 1, Len(deck) - 1)

(* ------------------------------ players -------------------------------- *)

length(players) == Cardinality(DOMAIN players)

\* The sum of f[0] + ... + f[n-1].
RECURSIVE Sum(_, _)
Sum(f, n) == IF n = 0 THEN 0 ELSE f[n - 1] + Sum(f, n - 1)

(* ----------------------------- dealing --------------------------------- *)

\* The two nested loops of dealCards, flattened: step k deals to player
\* k % length in round k \div length.
RECURSIVE DealLoop(_, _, _)
DealLoop(players, deck, k) ==
  LET j == k % length(players) IN
  IF k >= 2 * length(players) THEN [players |-> players, deck |-> deck]
  ELSE IF players[j].isActive
       THEN DealLoop(IF HasCard(deck)
                     THEN [players EXCEPT ![j].cards =
                             Append(@, [Pop(deck) EXCEPT !.faceUp = FALSE])]
                     ELSE players,
                     Popped(deck), k + 1)
       ELSE DealLoop(players, deck, k + 1)

dealCards(gs) ==
  LET dealt == DealLoop(gs.players, gs.deck, 0) IN
  [gs EXCEPT !.players = dealt.players, !.deck = dealt.deck]

\* The object handed to dealCards, as its caller sees it after the call:
\* updatedPlayers = [...players] copies the array but not the Player
\* objects, so cards.push reaches the caller's players; newDeck = [...deck]
\* is a copy, so the caller's deck keeps its cards.
dealCardsArgument(gs) ==
  LET dealt == DealLoop(gs.players, gs.deck, 0) IN
  [gs EXCEPT !.players = dealt.players]

RECURSIVE CommunityLoop(_, _, _)
CommunityLoop(communityCards, deck, cardsToAdd) ==
  IF cardsToAdd = 0
  THEN [communityCards |-> communityCards, deck |-> deck]
  ELSE CommunityLoop(IF HasCard(deck)
                     THEN Append(communityCards,
                                 [Pop(deck) EXCEPT !.faceUp = TRUE])
                     ELSE communityCards,
                     Popped(deck), cardsToAdd - 1)

\* Mutant of dealCommunityCards: the flop deals one card, like the turn.
dealCommunityCardsShortFlop(gs) ==
  LET cardsToAdd == CASE gs.stage \in {"flop", "turn", "river"} -> 1
                      [] OTHER -> 0
      dealt == CommunityLoop(gs.communityCards, gs.deck, cardsToAdd)
  IN IF gs.stage \notin {"flop", "turn", "river"} THEN gs
     ELSE [gs EXCEPT !.communityCards = dealt.communityCards,
                     !.deck = dealt.deck]

dealCommunityCards(gs) ==
  LET cardsToAdd == CASE gs.stage = "flop" -> 3
                      [] gs.stage \in {"turn", "river"} -> 1
                      [] OTHER -> 0
      dealt == CommunityLoop(gs.communityCards, gs.deck, cardsToAdd)
  IN IF gs.stage \notin {"flop", "turn", "river"} THEN gs
     ELSE [gs EXCEPT !.communityCards = dealt.communityCards,
                     !.deck = dealt.deck]

(* --------------------------- initializeGame ---------------------------- *)

\* seed stands for the outcomes of Math.random() inside createDeck().
initializeGame(playerCount, initialChips, smallBlind, bigBlind, seed) ==
  LET count == Min(Max(playerCount, 2), 10)
      created == [i \in 0..(count - 1) |->
                    [id           |-> i,
                     chips        |-> initialChips,
                     cards        |-> <<>>,
                     isActive     |-> TRUE,
                     isDealer     |-> i = 0,
                     isSmallBlind |-> i = 1,
                     isBigBlind   |-> i = 2 \/ (count = 2 /\ i = 1),
                     isTurn       |-> i = 3 \/ (count = 2 /\ i = 0)
                                            \/ (count = 3 /\ i = 0),
                     isAllIn      |-> FALSE,
                     bet          |-> 0]]
      smallBlindIndex == 1 % count
      bigBlindIndex == 2 % count
      withSmall == [created EXCEPT ![smallBlindIndex].bet = smallBlind,
                                   ![smallBlindIndex].chips = @ - smallBlind]
      players == [withSmall EXCEPT ![bigBlindIndex].bet = bigBlind,
                                   ![bigBlindIndex].chips = @ - bigBlind]
  IN [players            |-> players,
      communityCards     |-> <<>>,
      deck               |-> createDeck(seed),
      pot                |-> smallBlind + bigBlind,
      currentBet         |-> bigBlind,
      stage              |-> "preflop",
      currentPlayerIndex |-> 3 % count,
      dealerIndex        |-> 0,
      smallBlindAmount   |-> smallBlind,
      bigBlindAmount     |-> bigBlind,
      activePlayerIndex  |-> Undefined]

(* ---------------------- getNextStage / nextPlayer ---------------------- *)

getNextStage(currentStage) ==
  CASE currentStage = "preflop" -> "flop"
    [] currentStage = "flop" -> "turn"
    [] currentStage = "turn" -> "river"
    [] currentStage = "river" -> "showdown"
    [] OTHER -> "ended"

\* The while loop of nextPlayer.
RECURSIVE FindNextActive(_, _, _)
FindNextActive(players, nextIndex, currentPlayerIndex) ==
  IF ~players[nextIndex].isActive /\ nextIndex # currentPlayerIndex
  THEN FindNextActive(players, (nextIndex + 1) % length(players),
                      currentPlayerIndex)
  ELSE nextIndex

\* Mutant of nextPlayer: the players who already held the turn keep it.
nextPlayerKeepsFlags(gs) ==
  LET players == gs.players
      nextIndex == FindNextActive(players,
                                  (gs.currentPlayerIndex + 1) % length(players),
                                  gs.currentPlayerIndex)
      updatedPlayers == [index \in DOMAIN players |->
                           [players[index] EXCEPT
                              !.isTurn = (@ \/ index = nextIndex)]]
  IN [gs EXCEPT !.players = updatedPlayers, !.currentPlayerIndex = nextIndex]

\* Mutant of nextPlayer: the loop that skips inactive seats is missing.
nextPlayerNoSkip(gs) ==
  LET players == gs.players
      nextIndex == (gs.currentPlayerIndex + 1) % length(players)
      updatedPlayers == [index \in DOMAIN players |->
                           [players[index] EXCEPT !.isTurn = (index = nextIndex)]]
  IN [gs EXCEPT !.players = updatedPlayers, !.currentPlayerIndex = nextIndex]

nextPlayer(gs) ==
  LET players == gs.players
      nextIndex == FindNextActive(players,
                                  (gs.currentPlayerIndex + 1) % length(players),
                                  gs.currentPlayerIndex)
      updatedPlayers == [index \in DOMAIN players |->
                           [players[index] EXCEPT !.isTurn = (index = nextIndex)]]
  IN [gs EXCEPT !.players = updatedPlayers, !.currentPlayerIndex = nextIndex]

(* ------------------- GameControls: derived values --------------------- *)

\* Ids are the strings "player-<i>", modelled by i; every such string is
\* truthy, so `!currentPlayerId` holds exactly for Undefined.
PlayerIds(gs) == {gs.players[i].id : i \in DOMAIN gs.players}

\* Index of gameState.players.find(p => p.id === currentPlayerId), or
\* Undefined when currentPlayerId is absent or matches no player.
currentPlayer(gs, currentPlayerId) ==
  IF currentPlayerId # Undefined
     /\ \E i \in DOMAIN gs.players : gs.players[i].id = currentPlayerId
  THEN CHOOSE i \in DOMAIN gs.players :
         /\ gs.players[i].id = currentPlayerId
         /\ \A k \in DOMAIN gs.players :
              gs.players[k].id = currentPlayerId => i <= k
  ELSE Undefined

isPlayerTurn(gs, currentPlayerId) ==
  /\ currentPlayer(gs, currentPlayerId) # Undefined
  /\ gs.players[currentPlayer(gs, currentPlayerId)].isTurn

allPlayersActed(gs) ==
  \A i \in DOMAIN gs.players :
    (gs.players[i].isActive /\ ~gs.players[i].isAllIn)
      => (gs.players[i].bet = gs.currentBet \/ gs.players[i].chips = 0)

\* What a handler leaves behind: the state it handed to onGameStateChange
\* (called = TRUE), or the untouched state after an early return.
Returned(gs) == [called |-> FALSE, state |-> gs]

Changed(gs) == [called |-> TRUE, state |-> gs]

(* ----------------------- GameControls: handlers ------------------------ *)

handleFold(gs, currentPlayerId) ==
  IF ~isPlayerTurn(gs, currentPlayerId) \/ currentPlayerId = Undefined
  THEN Returned(gs)
  ELSE LET updatedPlayers ==
             [i \in DOMAIN gs.players |->
                IF gs.players[i].id = currentPlayerId
                THEN [gs.players[i] EXCEPT !.isActive = FALSE, !.isTurn = FALSE]
                ELSE gs.players[i]]
       IN Changed(nextPlayer([gs EXCEPT !.players = updatedPlayers]))

\* Mutant of handleCheck: the test that the bet is matched is missing.
handleCheckUnmatched(gs, currentPlayerId) ==
  IF ~isPlayerTurn(gs, currentPlayerId) \/ currentPlayerId = Undefined
  THEN Returned(gs)
  ELSE Changed(nextPlayer(gs))

handleCheck(gs, currentPlayerId) ==
  IF ~isPlayerTurn(gs, currentPlayerId) \/ currentPlayerId = Undefined
  THEN Returned(gs)
  ELSE IF gs.currentBet > 0
          /\ gs.players[currentPlayer(gs, currentPlayerId)].bet # gs.currentBet
       THEN Returned(gs)
       ELSE Changed(nextPlayer(gs))

\* Mutant of handleCall: the called amount is not added to the pot.
handleCallNoPot(gs, currentPlayerId) ==
  IF ~isPlayerTurn(gs, currentPlayerId) \/ currentPlayerId = Undefined
     \/ currentPlayer(gs, currentPlayerId) = Undefined
  THEN Returned(gs)
  ELSE LET player == gs.players[currentPlayer(gs, currentPlayerId)]
           amountToCall == gs.currentBet - player.bet
           isAllIn == player.chips <= amountToCall
           actualCallAmount == IF isAllIn THEN player.chips ELSE amountToCall
           updatedPlayers ==
             [i \in DOMAIN gs.players |->
                IF gs.players[i].id = currentPlayerId
                THEN [gs.players[i] EXCEPT
                        !.chips = @ - actualCallAmount,
                        !.bet = @ + actualCallAmount,
                        !.isAllIn = isAllIn]
                ELSE gs.players[i]]
       IN Changed(nextPlayer([gs EXCEPT !.players = updatedPlayers]))

\* Mutant of handleCall: all-in only when the stack is strictly short.
handleCallStrictAllIn(gs, currentPlayerId) ==
  IF ~isPlayerTurn(gs, currentPlayerId) \/ currentPlayerId = Undefined
     \/ currentPlayer(gs, currentPlayerId) = Undefined
  THEN Returned(gs)
  ELSE LET player == gs.players[currentPlayer(gs, currentPlayerId)]
           amountToCall == gs.currentBet - player.bet
           isAllIn == player.chips < amountToCall
           actualCallAmount == IF isAllIn THEN player.chips ELSE amountToCall
           updatedPlayers ==
             [i \in DOMAIN gs.players |->
                IF gs.players[i].id = currentPlayerId
                THEN [gs.players[i] EXCEPT
                        !.chips = @ - actualCallAmount,
                        !.bet = @ + actualCallAmount,
                        !.isAllIn = isAllIn]
                ELSE gs.players[i]]
       IN Changed(nextPlayer([gs EXCEPT !.players = updatedPlayers,
                                        !.pot = @ + actualCallAmount]))

\* Mutant of handleCall: the turn is not passed on (no nextPlayer).
handleCallKeepsTurn(gs, currentPlayerId) ==
  IF ~isPlayerTurn(gs, currentPlayerId) \/ currentPlayerId = Undefined
     \/ currentPlayer(gs, currentPlayerId) = Undefined
  THEN Returned(gs)
  ELSE LET player == gs.players[currentPlayer(gs, currentPlayerId)]
           amountToCall == gs.currentBet - player.bet
           isAllIn == player.chips <= amountToCall
           actualCallAmount == IF isAllIn THEN player.chips ELSE amountToCall
           updatedPlayers ==
             [i \in DOMAIN gs.players |->
                IF gs.players[i].id = currentPlayerId
                THEN [gs.players[i] EXCEPT
                        !.chips = @ - actualCallAmount,
                        !.bet = @ + actualCallAmount,
                        !.isAllIn = isAllIn]
                ELSE gs.players[i]]
       IN Changed([gs EXCEPT !.players = updatedPlayers,
                             !.pot = @ + actualCallAmount])

handleCall(gs, currentPlayerId) ==
  IF ~isPlayerTurn(gs, currentPlayerId) \/ currentPlayerId = Undefined
     \/ currentPlayer(gs, currentPlayerId) = Undefined
  THEN Returned(gs)
  ELSE LET player == gs.players[currentPlayer(gs, currentPlayerId)]
           amountToCall == gs.currentBet - player.bet
           isAllIn == player.chips <= amountToCall
           actualCallAmount == IF isAllIn THEN player.chips ELSE amountToCall
           updatedPlayers ==
             [i \in DOMAIN gs.players |->
                IF gs.players[i].id = currentPlayerId
                THEN [gs.players[i] EXCEPT
                        !.chips = @ - actualCallAmount,
                        !.bet = @ + actualCallAmount,
                        !.isAllIn = isAllIn]
                ELSE gs.players[i]]
       IN Changed(nextPlayer([gs EXCEPT !.players = updatedPlayers,
                                        !.pot = @ + actualCallAmount]))

\* Mutant of handleRaise: currentBet is not raised to the new bet.
handleRaiseKeepsCurrentBet(gs, currentPlayerId, betAmount) ==
  IF ~isPlayerTurn(gs, currentPlayerId) \/ currentPlayerId = Undefined
     \/ currentPlayer(gs, currentPlayerId) = Undefined
  THEN Returned(gs)
  ELSE LET player == gs.players[currentPlayer(gs, currentPlayerId)]
           currentPlayerBet == player.bet
           amountToAdd == betAmount - currentPlayerBet
           updatedPlayers ==
             [i \in DOMAIN gs.players |->
                IF gs.players[i].id = currentPlayerId
                THEN [gs.players[i] EXCEPT
                        !.chips = @ - amountToAdd,
                        !.bet = betAmount,
                        !.isAllIn = (gs.players[i].chips - amountToAdd = 0)]
                ELSE gs.players[i]]
       IN IF amountToAdd > player.chips THEN Returned(gs)
          ELSE IF betAmount < gs.currentBet * 2 THEN Returned(gs)
          ELSE Changed(nextPlayer([gs EXCEPT !.players = updatedPlayers,
                                             !.pot = @ + amountToAdd]))

\* Mutant of handleRaise: the check that the stack covers the raise is
\* missing.
handleRaiseBeyondStack(gs, currentPlayerId, betAmount) ==
  IF ~isPlayerTurn(gs, currentPlayerId) \/ currentPlayerId = Undefined
     \/ currentPlayer(gs, currentPlayerId) = Undefined
  THEN Returned(gs)
  ELSE LET player == gs.players[currentPlayer(gs, currentPlayerId)]
           currentPlayerBet == player.bet
           amountToAdd == betAmount - currentPlayerBet
           updatedPlayers ==
             [i \in DOMAIN gs.players |->
                IF gs.players[i].id = currentPlayerId
                THEN [gs.players[i] EXCEPT
                        !.chips = @ - amountToAdd,
                        !.bet = betAmount,
                        !.isAllIn = (gs.players[i].chips - amountToAdd = 0)]
                ELSE gs.players[i]]
       IN IF betAmount < gs.currentBet * 2 THEN Returned(gs)
          ELSE Changed(nextPlayer([gs EXCEPT !.players = updatedPlayers,
                                             !.pot = @ + amountToAdd,
                                             !.currentBet = betAmount]))

\* Mutant of handleRaise: the chips added to the bet do not reach the pot.
handleRaiseNoPot(gs, currentPlayerId, betAmount) ==
  IF ~isPlayerTurn(gs, currentPlayerId) \/ currentPlayerId = Undefined
     \/ currentPlayer(gs, currentPlayerId) = Undefined
  THEN Returned(gs)
  ELSE LET player == gs.players[currentPlayer(gs, currentPlayerId)]
           currentPlayerBet == player.bet
           amountToAdd == betAmount - currentPlayerBet
           updatedPlayers ==
             [i \in DOMAIN gs.players |->
                IF gs.players[i].id = currentPlayerId
                THEN [gs.players[i] EXCEPT
                        !.chips = @ - amountToAdd,
                        !.bet = betAmount,
                        !.isAllIn = (gs.players[i].chips - amountToAdd = 0)]
                ELSE gs.players[i]]
       IN IF amountToAdd > player.chips THEN Returned(gs)
          ELSE IF betAmount < gs.currentBet * 2 THEN Returned(gs)
          ELSE Changed(nextPlayer([gs EXCEPT !.players = updatedPlayers,
                                             !.currentBet = betAmount]))

handleRaise(gs, currentPlayerId, betAmount) ==
  IF ~isPlayerTurn(gs, currentPlayerId) \/ currentPlayerId = Undefined
     \/ currentPlayer(gs, currentPlayerId) = Undefined
  THEN Returned(gs)
  ELSE LET player == gs.players[currentPlayer(gs, currentPlayerId)]
           currentPlayerBet == player.bet
           amountToAdd == betAmount - currentPlayerBet
           updatedPlayers ==
             [i \in DOMAIN gs.players |->
                IF gs.players[i].id = currentPlayerId
                THEN [gs.players[i] EXCEPT
                        !.chips = @ - amountToAdd,
                        !.bet = betAmount,
                        !.isAllIn = (gs.players[i].chips - amountToAdd = 0)]
                ELSE gs.players[i]]
       IN IF amountToAdd > player.chips THEN Returned(gs)
          ELSE IF betAmount < gs.currentBet * 2 THEN Returned(gs)
          ELSE Changed(nextPlayer([gs EXCEPT !.players = updatedPlayers,
                                             !.pot = @ + amountToAdd,
                                             !.currentBet = betAmount]))

\* Mutant of handleNextStage: the allPlayersActed gate is missing.
handleNextStageUngated(gs) ==
  LET updatedPlayers ==
        [i \in DOMAIN gs.players |->
           [gs.players[i] EXCEPT
              !.bet = 0,
              !.isTurn = (gs.players[i].id = gs.players[gs.dealerIndex].id)]]
      nextStage == getNextStage(gs.stage)
      newState == [gs EXCEPT !.players = updatedPlayers,
                             !.stage = nextStage,
                             !.currentBet = 0,
                             !.activePlayerIndex = gs.dealerIndex]
  IN Changed(IF nextStage \in {"flop", "turn", "river"}
             THEN dealCommunityCards(newState)
             ELSE newState)

handleNextStage(gs) ==
  IF ~allPlayersActed(gs) THEN Returned(gs)
  ELSE LET updatedPlayers ==
             [i \in DOMAIN gs.players |->
                [gs.players[i] EXCEPT
                   !.bet = 0,
                   !.isTurn = (gs.players[i].id = gs.players[gs.dealerIndex].id)]]
           nextStage == getNextStage(gs.stage)
           newState == [gs EXCEPT !.players = updatedPlayers,
                                  !.stage = nextStage,
                                  !.currentBet = 0,
                                  !.activePlayerIndex = gs.dealerIndex]
       IN Changed(IF nextStage \in {"flop", "turn", "river"}
                  THEN dealCommunityCards(newState)
                  ELSE newState)

handleNewGame(gs) ==
  LET n == length(gs.players)
      updatedPlayers ==
        [index \in DOMAIN gs.players |->
           [gs.players[index] EXCEPT
              !.cards = <<>>,
              !.bet = 0,
              !.isActive = TRUE,
              !.isAllIn = FALSE,
              !.isDealer = (index = (gs.dealerIndex + 1) % n),
              !.isSmallBlind = (index = (gs.dealerIndex + 2) % n),
              !.isBigBlind = (index = (gs.dealerIndex + 3) % n),
              !.isTurn = (index = (gs.dealerIndex + 4) % n)]]
      newState == [gs EXCEPT !.players = updatedPlayers,
                             !.communityCards = <<>>,
                             !.pot = 0,
                             !.currentBet = gs.bigBlindAmount,
                             !.stage = "preflop",
                             !.activePlayerIndex = (gs.dealerIndex + 4) % n,
                             !.dealerIndex = (gs.dealerIndex + 1) % n]
  IN Changed(dealCards(newState))

\* The New Game button is disabled unless the hand is at showdown or ended.
newGameEnabled(gs) == ~(gs.stage # "ended" /\ gs.stage # "showdown")

(* --------------------------- the state machine ------------------------- *)

\* Who presses a button: any seated player, or a viewer with no id.
Callers == PlayerIds(gameState) \cup {Undefined}

BetAmounts == 0..MaxBetAmount

\* A handler run: what it handed to onGameStateChange replaces the state and
\* is recorded in last; an early return leaves everything as it was.
Record(op, id, betAmount, result) ==
  IF result.called
  THEN /\ gameState' = result.state
       /\ last' = [op |-> op, id |-> id, betAmount |-> betAmount]
  ELSE UNCHANGED <<gameState, last>>

Init ==
  /\ \E playerCount \in 1..MaxPlayerCount, seed \in RandomSeeds :
       gameState = initializeGame(playerCount, InitialChips, SmallBlind,
                                  BigBlind, seed)
  /\ last = [op |-> "initializeGame", id |-> Undefined, betAmount |-> 0]
  /\ newGames = 0

Fold ==
  \E id \in Callers :
    /\ Record("fold", id, 0, handleFold(gameState, id))
    /\ UNCHANGED newGames

Check ==
  \E id \in Callers :
    /\ Record("check", id, 0, handleCheck(gameState, id))
    /\ UNCHANGED newGames

Call ==
  \E id \in Callers :
    /\ Record("call", id, 0, handleCall(gameState, id))
    /\ UNCHANGED newGames

Raise ==
  \E id \in Callers, betAmount \in BetAmounts :
    /\ Record("raise", id, betAmount, handleRaise(gameState, id, betAmount))
    /\ UNCHANGED newGames

NextStage ==
  /\ Record("nextStage", Undefined, 0, handleNextStage(gameState))
  /\ UNCHANGED newGames

NewGame ==
  /\ newGameEnabled(gameState)
  /\ newGames < MaxNewGames
  /\ Record("newGame", Undefined, 0, handleNewGame(gameState))
  /\ newGames' = newGames + 1

Next == Fold \/ Check \/ Call \/ Raise \/ NextStage \/ NewGame

Spec == Init /\ [][Next]_vars

(* -------------- nextPlayer on arbitrary inputs (pure function) --------- *)

\* Any table whose currentPlayerIndex is valid: every combination of the
\* isActive and isTurn flags, whether or not the handlers can produce it.
InitNextPlayer ==
  /\ \E count \in 2..MaxPlayerCount :
       \E active \in [0..(count - 1) -> BOOLEAN],
          turn \in [0..(count - 1) -> BOOLEAN],
          index \in 0..(count - 1) :
         LET gs == initializeGame(count, InitialChips, SmallBlind, BigBlind, 0)
         IN gameState =
              [gs EXCEPT !.players = [i \in DOMAIN gs.players |->
                                        [gs.players[i] EXCEPT
                                           !.isActive = active[i],
                                           !.isTurn = turn[i]]],
                         !.currentPlayerIndex = index]
  /\ last = [op |-> "input", id |-> Undefined, betAmount |-> 0]
  /\ newGames = 0

ApplyNextPlayer ==
  /\ last.op = "input"
  /\ gameState' = nextPlayer(gameState)
  /\ last' = [op |-> "nextPlayer", id |-> gameState.currentPlayerIndex,
              betAmount |-> 0]
  /\ UNCHANGED newGames

SpecNextPlayer == InitNextPlayer /\ [][ApplyNextPlayer]_vars

(* ------------------------- vocabulary of the claims -------------------- *)

P == gameState.players

BettingOps == {"fold", "check", "call", "raise"}

SumChips(gs) ==
  Sum([i \in DOMAIN gs.players |-> gs.players[i].chips], length(gs.players))

SumBets(gs) ==
  Sum([i \in DOMAIN gs.players |-> gs.players[i].bet], length(gs.players))

SumCards(gs) ==
  Sum([i \in DOMAIN gs.players |-> Len(gs.players[i].cards)],
      length(gs.players))

TurnHolders(gs) == {i \in DOMAIN gs.players : gs.players[i].isTurn}

ActivePlayers(gs) == {i \in DOMAIN gs.players : gs.players[i].isActive}

\* The first active seat met going round the table from seat a (a excluded).
FirstActiveAfter(gs, a) ==
  LET n == length(gs.players)
      d == CHOOSE x \in 1..(n - 1) :
             /\ gs.players[(a + x) % n].isActive
             /\ \A y \in 1..(x - 1) : ~gs.players[(a + y) % n].isActive
  IN (a + d) % n

(* ------------------------------- claims -------------------------------- *)

\* C1 (as stated): every fold, check, call and raise leaves
\* (sum of chips) + (sum of bets) + pot unchanged.
C1_ChipsBetsPotConserved ==
  [][last'.op \in BettingOps =>
       SumChips(gameState') + SumBets(gameState') + gameState'.pot
         = SumChips(gameState) + SumBets(gameState) + gameState.pot]_vars

\* C1 (amended): every fold, check, call and raise leaves
\* (sum of chips) + pot unchanged; the pot already holds the round's bets.
C1_ChipsPotConserved ==
  [][last'.op \in BettingOps =>
       SumChips(gameState') + gameState'.pot
         = SumChips(gameState) + gameState.pot]_vars

\* A call has moved chips from a stack into the pot.
C1_Witness ==
  /\ last.op = "call"
  /\ newGames = 0
  /\ gameState.pot > gameState.smallBlindAmount + gameState.bigBlindAmount

\* C2: deck + hole cards + community cards always number 52.
C2_CardConservation ==
  Len(gameState.deck) + SumCards(gameState) + Len(gameState.communityCards)
    = 52

\* C3: after an accepted fold, check, call or raise by the turn holder, with
\* another active player at the table, the actor has lost the turn and the
\* first active player after the actor holds it.
C3_TurnAdvances ==
  [][(/\ last'.op \in BettingOps
      /\ \E j \in ActivePlayers(gameState) : j # last'.id)
       => /\ ~gameState'.players[last'.id].isTurn
          /\ gameState'.players[FirstActiveAfter(gameState', last'.id)].isTurn
    ]_vars

\* C4: a player has isTurn exactly when the player's index is
\* currentPlayerIndex.
C4_TurnMatchesIndex ==
  \A i \in DOMAIN P : P[i].isTurn <=> (i = gameState.currentPlayerIndex)

\* C5: at most one player has isTurn in every reachable state.
C5_AtMostOneTurn == Cardinality(TurnHolders(gameState)) <= 1

\* A betting action of the second hand has passed the turn on.
C5_Witness ==
  /\ newGames = 1
  /\ last.op \in BettingOps
  /\ Cardinality(TurnHolders(gameState)) = 1

\* C6: nextPlayer returns a state where exactly one player has isTurn, that
\* player sits at the returned currentPlayerIndex, and is active unless
\* every player is inactive.
C6_NextPlayerResult ==
  last.op = "nextPlayer" =>
    /\ TurnHolders(gameState) = {gameState.currentPlayerIndex}
    /\ \/ P[gameState.currentPlayerIndex].isActive
       \/ ActivePlayers(gameState) = {}

\* nextPlayer has stepped over an inactive seat to reach an active one.
C6_Witness ==
  /\ last.op = "nextPlayer"
  /\ P[gameState.currentPlayerIndex].isActive
  /\ gameState.currentPlayerIndex # (last.id + 1) % length(P)
  /\ gameState.currentPlayerIndex # last.id

\* C7: currentBet is at least the bet of every active player.
C7_CurrentBetCoversBets ==
  \A i \in ActivePlayers(gameState) : gameState.currentBet >= P[i].bet

\* A raise has set a positive currentBet that its active maker's bet meets.
C7_Witness ==
  /\ last.op = "raise"
  /\ gameState.currentBet > 0
  /\ P[last.id].isActive
  /\ P[last.id].bet = gameState.currentBet

\* C8: for the turn holder and any betAmount >= 0, a raise below twice
\* currentBet is rejected, and a raise of at least twice currentBet that the
\* stack covers is accepted and leaves currentBet strictly greater.
C8_RaiseValidation ==
  \A i \in TurnHolders(gameState), betAmount \in BetAmounts :
    LET result == handleRaise(gameState, P[i].id, betAmount) IN
    /\ betAmount < 2 * gameState.currentBet => result = Returned(gameState)
    /\ (/\ betAmount >= 2 * gameState.currentBet
        /\ betAmount - P[i].bet <= P[i].chips)
         => /\ result.called
            /\ result.state.currentBet > gameState.currentBet

\* C9: an action for a player who does not hold the turn, a check against
\* an unmatched positive currentBet, and a raise below twice currentBet or
\* beyond the stack, each return the state unchanged.
C9_RejectedActionsAreNoOps ==
  \A id \in Callers, betAmount \in BetAmounts :
    LET i == currentPlayer(gameState, id)
        holdsTurn == i # Undefined /\ P[i].isTurn
    IN /\ ~holdsTurn =>
            /\ handleFold(gameState, id) = Returned(gameState)
            /\ handleCheck(gameState, id) = Returned(gameState)
            /\ handleCall(gameState, id) = Returned(gameState)
            /\ handleRaise(gameState, id, betAmount) = Returned(gameState)
       /\ (holdsTurn /\ gameState.currentBet > 0
             /\ P[i].bet # gameState.currentBet)
            => handleCheck(gameState, id) = Returned(gameState)
       /\ (holdsTurn /\ (\/ betAmount < 2 * gameState.currentBet
                         \/ betAmount - P[i].bet > P[i].chips))
            => handleRaise(gameState, id, betAmount) = Returned(gameState)

\* After an accepted action the turn holder faces an unmatched positive
\* currentBet (a check is refused), a raise target above the stack, and
\* another player sits out of turn.
C9_Witness ==
  /\ last.op \in BettingOps
  /\ \E i \in TurnHolders(gameState) :
       /\ gameState.currentBet > 0
       /\ P[i].bet # gameState.currentBet
       /\ \E betAmount \in BetAmounts :
            /\ betAmount >= 2 * gameState.currentBet
            /\ betAmount - P[i].bet > P[i].chips
       /\ \E j \in DOMAIN P : j # i /\ ~P[j].isTurn

\* C10: a call by the turn holder with amountToCall = currentBet - bet pays
\* the whole stack and sets isAllIn when chips <= amountToCall, and
\* otherwise pays amountToCall exactly, reaching bet = currentBet with
\* isAllIn false; chips paid = bet gained = pot gained, and no other
\* player's chips or bet change.
C10_CallSettles ==
  [][last'.op = "call" =>
       LET a == last'.id
           before == gameState.players[a]
           after == gameState'.players[a]
           amountToCall == gameState.currentBet - before.bet
           paid == before.chips - after.chips
       IN /\ IF before.chips <= amountToCall
             THEN /\ paid = before.chips
                  /\ after.chips = 0
                  /\ after.isAllIn
             ELSE /\ paid = amountToCall
                  /\ after.bet = gameState.currentBet
                  /\ ~after.isAllIn
          /\ after.bet - before.bet = paid
          /\ gameState'.pot - gameState.pot = paid
          /\ \A j \in DOMAIN gameState.players :
               j # a => /\ gameState'.players[j].chips
                            = gameState.players[j].chips
                        /\ gameState'.players[j].bet
                            = gameState.players[j].bet
    ]_vars

\* A call has put a player all-in for less than the current bet.
C10_Witness ==
  /\ last.op = "call"
  /\ P[last.id].isAllIn
  /\ P[last.id].chips = 0
  /\ P[last.id].bet < gameState.currentBet

\* C11: initializeGame leaves the player flagged isSmallBlind with
\* bet = smallBlind taken from the stack, the player flagged isBigBlind with
\* bet = bigBlind taken from the stack (one player flagged with both has
\* posted a blind), every player without a blind flag with bet = 0 and the
\* whole initial stack, pot = smallBlind + bigBlind and currentBet = bigBlind.
C11_BlindsPostedByFlaggedPlayers ==
  (last.op = "initializeGame" /\ length(P) >= 2) =>
    /\ \A i \in DOMAIN P :
         /\ (P[i].isSmallBlind /\ ~P[i].isBigBlind)
              => P[i].bet = SmallBlind /\ P[i].chips = InitialChips - SmallBlind
         /\ (P[i].isBigBlind /\ ~P[i].isSmallBlind)
              => P[i].bet = BigBlind /\ P[i].chips = InitialChips - BigBlind
         /\ (P[i].isSmallBlind /\ P[i].isBigBlind)
              => P[i].bet > 0 /\ P[i].chips = InitialChips - P[i].bet
         /\ (~P[i].isSmallBlind /\ ~P[i].isBigBlind)
              => P[i].bet = 0 /\ P[i].chips = InitialChips
    /\ gameState.pot = SmallBlind + BigBlind
    /\ gameState.currentBet = BigBlind

\* Every active player who is not flagged all-in has matched currentBet.
EveryoneMatched(gs) ==
  \A i \in DOMAIN gs.players :
    (gs.players[i].isActive /\ ~gs.players[i].isAllIn)
      => gs.players[i].bet = gs.currentBet

\* C12 as stated: handleNextStage changes the stage only if every active
\* player not flagged all-in has bet = currentBet, and otherwise leaves the
\* state unchanged.
C12_AdvanceOnlyWhenMatched ==
  LET result == handleNextStage(gameState) IN
  /\ result.state.stage # gameState.stage => EveryoneMatched(gameState)
  /\ ~EveryoneMatched(gameState) => result = Returned(gameState)

\* C12: handleNextStage changes the stage only if every active player not
\* flagged all-in has bet = currentBet or has no chips left, and otherwise
\* leaves the state unchanged.
C12_AdvanceOnlyWhenMatchedOrBroke ==
  LET result == handleNextStage(gameState)
      settled == \A i \in DOMAIN P :
                   (P[i].isActive /\ ~P[i].isAllIn)
                     => (P[i].bet = gameState.currentBet \/ P[i].chips = 0)
  IN /\ result.state.stage # gameState.stage => settled
     /\ ~settled => result = Returned(gameState)

\* The second hand went to the flop past an active player who has no chips,
\* is not flagged all-in, and never matched the big blind.
C12_Witness ==
  /\ newGames = 1
  /\ last.op = "nextStage"
  /\ gameState.stage = "flop"
  /\ \E i \in DOMAIN P : P[i].isActive /\ ~P[i].isAllIn /\ P[i].chips = 0

\* The number of community cards each stage shows.
CommunityCount(stage) ==
  CASE stage = "preflop" -> 0
    [] stage = "flop" -> 3
    [] stage = "turn" -> 4
    [] OTHER -> 5

\* C13: while the deck has not run out, communityCards holds 0 cards at
\* preflop, 3 at flop, 4 at turn and 5 at river, showdown and ended, all
\* face up; and handleNextStage into showdown or ended, or from ended, deals
\* no card: deck and communityCards stay as they are.
C13_CommunityCardsPerStage ==
  /\ Len(gameState.deck) > 0 =>
       /\ Len(gameState.communityCards) = CommunityCount(gameState.stage)
       /\ \A k \in DOMAIN gameState.communityCards :
            gameState.communityCards[k].faceUp
  /\ gameState.stage \in {"river", "showdown", "ended"} =>
       LET result == handleNextStage(gameState) IN
       /\ result.state.deck = gameState.deck
       /\ result.state.communityCards = gameState.communityCards

\* handleNextStage has run at ended with the five cards on the table.
C13_Witness ==
  /\ last.op = "nextStage"
  /\ gameState.stage = "ended"
  /\ Len(gameState.communityCards) = 5
  /\ Len(gameState.deck) > 0
  /\ handleNextStage(gameState).called

(* ------------- many hands: the table only calls and advances ----------- *)

\* Number of times handleNewGame is taken when every player only calls.
MaxDeals == 6

NewGameAgain ==
  /\ newGameEnabled(gameState)
  /\ newGames < MaxDeals
  /\ Record("newGame", Undefined, 0, handleNewGame(gameState))
  /\ newGames' = newGames + 1

NextDeals == Call \/ NextStage \/ NewGameAgain

SpecDeals == Init /\ [][NextDeals]_vars

\* C14: after every handleNewGame taken at showdown or ended, after any
\* number of earlier hands, every player is active and holds exactly 2
\* face-down cards, and the deck has shrunk by exactly 2 * playerCount.
C14_NewGameDealsTwoEach ==
  [][last'.op = "newGame" =>
       /\ \A i \in DOMAIN gameState'.players :
            /\ gameState'.players[i].isActive
            /\ Len(gameState'.players[i].cards) = 2
            /\ \A k \in DOMAIN gameState'.players[i].cards :
                 ~gameState'.players[i].cards[k].faceUp
       /\ Len(gameState'.deck)
            = Len(gameState.deck) - 2 * length(gameState.players)
    ]_vars

\* C15: with initialChips >= bigBlind >= smallBlind >= 0, every player's
\* chips and bet and the pot are >= 0 in every reachable state.
C15_NothingNegative ==
  (InitialChips >= BigBlind /\ BigBlind >= SmallBlind /\ SmallBlind >= 0) =>
    /\ \A i \in DOMAIN P : P[i].chips >= 0 /\ P[i].bet >= 0
    /\ gameState.pot >= 0

\* A raise has taken a player's last chip.
C15_Witness ==
  /\ InitialChips >= BigBlind /\ BigBlind >= SmallBlind /\ SmallBlind >= 0
  /\ last.op = "raise"
  /\ P[last.id].chips = 0
  /\ P[last.id].bet > 0

\* C16: handleNewGame taken at showdown or ended keeps the total of all
\* players' chips, all players' bets and the pot.
C16_NewGameConservesChips ==
  [][(last'.op = "newGame" /\ gameState.stage \in {"showdown", "ended"}) =>
       SumChips(gameState') + SumBets(gameState') + gameState'.pot
         = SumChips(gameState) + SumBets(gameState) + gameState.pot
    ]_vars

(* ---------------- dealCards on arbitrary inputs (pure function) -------- *)

\* Deck sizes handed to dealCards: too few cards for the table, just
\* enough, and the full deck.
DeckSizes == 0..(2 * MaxPlayerCount) \cup {Len(suits) * Len(ranks)}

\* gameState is the object the caller hands to dealCards and still holds
\* afterwards; last.returned is the object dealCards returns.
InitDealCards ==
  /\ \E playerCount \in 2..MaxPlayerCount, seed \in RandomSeeds,
        size \in DeckSizes :
       \E active \in [0..(playerCount - 1) -> BOOLEAN] :
         LET gs == initializeGame(playerCount, InitialChips, SmallBlind,
                                  BigBlind, seed)
         IN gameState =
              [gs EXCEPT !.deck = SubSeq(gs.deck, 1, size),
                         !.players = [i \in DOMAIN gs.players |->
                                        [gs.players[i] EXCEPT
                                           !.isActive = active[i]]]]
  /\ last = [op |-> "input", id |-> Undefined, betAmount |-> 0]
  /\ newGames = 0

ApplyDealCards ==
  /\ last.op = "input"
  /\ gameState' = dealCardsArgument(gameState)
  /\ last' = [op |-> "dealCards", id |-> Undefined, betAmount |-> 0,
              returned |-> dealCards(gameState)]
  /\ UNCHANGED newGames

SpecDealCards == InitDealCards /\ [][ApplyDealCards]_vars

\* C17: dealCards does not modify the state it is given: after the call the
\* input's players hold exactly the cards they held before and the input's
\* deck is unchanged.
C17_DealCardsKeepsInput ==
  [][last'.op = "dealCards" =>
       /\ \A i \in DOMAIN gameState.players :
            gameState'.players[i].cards = gameState.players[i].cards
       /\ gameState'.deck = gameState.deck
    ]_vars

\* C18: within the first hand (no handleNewGame taken) the players' chips
\* plus the pot equal playerCount * initialChips in every state, and every
\* accepted betting action between two handleNextStage calls raises the pot
\* by exactly what it adds to the players' bets.
C18_SingleHandConservation ==
  /\ [](newGames = 0 =>
          SumChips(gameState) + gameState.pot = length(P) * InitialChips)
  /\ [][(newGames' = 0 /\ last'.op \in BettingOps) =>
          gameState'.pot - gameState.pot
            = SumBets(gameState') - SumBets(gameState)]_vars

\* After the flop a raise of the first hand has grown the pot.
C18_Witness ==
  /\ newGames = 0
  /\ last.op = "raise"
  /\ gameState.stage \in {"flop", "turn", "river"}
  /\ gameState.pot > SmallBlind + BigBlind
  /\ P[last.id].bet > 0

\* C19: in every reachable state with at least one active player the
\* player holding isTurn is active, so an inactive player's fold, call or
\* raise is never accepted.
C19_TurnHolderIsActive ==
  ActivePlayers(gameState) # {} =>
    \A i \in TurnHolders(gameState) : P[i].isActive

(* ------- any play, then the turn holder calls and the stage advances --- *)

BettingStages == {"preflop", "flop", "turn", "river"}

CallingOps == {"keepCalling", "advance"}

\* From some state of a betting stage on, the only buttons pressed are Call,
\* by whoever holds the turn, and Next Round.
Calling == last.op \in CallingOps

\* Calls made since the turn holders started calling or since the last
\* handleNextStage.
CallsSoFar == IF Calling THEN last.calls ELSE 0

AnyPlay == ~Calling /\ Next

\* The turn holder presses Call; one call more than there are players is
\* as long as a round of calls is followed.
KeepCalling ==
  /\ Calling \/ gameState.stage \in BettingStages
  /\ CallsSoFar <= length(P)
  /\ \E i \in TurnHolders(gameState) :
       LET result == handleCall(gameState, P[i].id) IN
       /\ result.called
       /\ gameState' = result.state
       /\ last' = [op |-> "keepCalling", id |-> P[i].id, betAmount |-> 0,
                   calls |-> CallsSoFar + 1]
  /\ UNCHANGED newGames

Advance ==
  /\ Calling \/ gameState.stage \in BettingStages
  /\ gameState.stage # "ended"
  /\ LET result == handleNextStage(gameState) IN
     /\ result.called
     /\ gameState' = result.state
     /\ last' = [op |-> "advance", id |-> Undefined, betAmount |-> 0,
                 calls |-> 0]
  /\ UNCHANGED newGames

NextCalling == AnyPlay \/ KeepCalling \/ Advance

\* The turn holder keeps calling, and handleNextStage is taken whenever it
\* stays enabled.
SpecCalling ==
  /\ Init
  /\ [][NextCalling]_vars
  /\ WF_vars(KeepCalling)
  /\ WF_vars(Advance)

\* C20: from every reachable state of a betting stage, once the turn
\* holders have called playerCount + 1 times in a row allPlayersActed is
\* true (handleNextStage is enabled); every handleNextStage then taken
\* moves the stage one step towards ended; and a stage that is ended stays
\* ended until handleNewGame.
C20_BettingRoundsComplete ==
  /\ []((Calling /\ last.calls > length(P)) => allPlayersActed(gameState))
  /\ [][last'.op = "advance" =>
          /\ gameState'.stage = getNextStage(gameState.stage)
          /\ gameState'.stage # gameState.stage
          /\ allPlayersActed(gameState')]_vars
  /\ [][(gameState.stage = "ended" /\ last'.op # "newGame")
          => gameState'.stage = "ended"]_vars

\* In the second hand a full round of calls has ended with one player
\* matching the big blind and another all-in for less, and handleNextStage
\* is enabled.
C20_Witness ==
  /\ newGames = 1
  /\ last.op = "keepCalling"
  /\ last.calls > length(P)
  /\ gameState.stage = "preflop"
  /\ allPlayersActed(gameState)
  /\ \E i \in ActivePlayers(gameState) :
       P[i].bet = gameState.currentBet /\ P[i].bet > 0
  /\ \E i \in ActivePlayers(gameState) :
       P[i].isAllIn /\ P[i].bet < gameState.currentBet

====
